---- MODULE Spec2Model ----
(***************************************************************************)
(* A model of optisharp's batch image processor (processImages).           *)
(*                                                                         *)
(* Strings the code takes apart (extensions, format names, positions) are  *)
(* sequences of one-character strings, so that toLowerCase, replace,       *)
(* includes and the extension regex are computed, not assumed.  A value    *)
(* that may be undefined is a set: {} when undefined, {v} when set to v.   *)
(***************************************************************************)
EXTENDS Integers, Sequences, FiniteSets, TLC

VARIABLES
  cfg,      \* the configurable options block (OUTPUT_FORMAT, RESIZE, ...)
  disk,     \* the file system the run meets: input directory, watermark file
  pc,       \* position of processImages
  files,    \* const files = fs.readdirSync(INPUT_DIR)
  idx,      \* position of the for..of loop in files (1-based)
  stats,    \* const stats = {...}
  cur,      \* the locals of the file being handled
  written,  \* the successful pipeline.toFile(outputPath) calls, in order
  log,      \* console output, in order
  ret,      \* what the promise of processImages resolves to
  tally     \* per entry of files: how often each counter was bumped for it

vars == <<cfg, disk, pc, files, idx, stats, cur, written, log, ret, tally>>

\* ------------------------------------------------------------ bounds

MaxFiles == 3
MaxTextLen == 3

\* ------------------------------------------------------------ strings

None == {}
Some(v) == {v}
Val(o) == CHOOSE v \in o : TRUE

UpperChars == <<"A","B","C","D","E","F","G","H","I","J","K","L","M",
                "N","O","P","Q","R","S","T","U","V","W","X","Y","Z">>
LowerChars == <<"a","b","c","d","e","f","g","h","i","j","k","l","m",
                "n","o","p","q","r","s","t","u","v","w","x","y","z">>

LowerChar(c) ==
  IF \E i \in 1..Len(UpperChars) : UpperChars[i] = c
  THEN LowerChars[CHOOSE i \in 1..Len(UpperChars) : UpperChars[i] = c]
  ELSE c

\* String.prototype.toLowerCase
toLowerCase(s) == [i \in 1..Len(s) |-> LowerChar(s[i])]

\* String.prototype.includes
includes(s, sub) ==
  \E i \in 0..(Len(s) - Len(sub)) : SubSeq(s, i + 1, i + Len(sub)) = sub

\* s.endsWith(suffix)
endsWith(s, suffix) ==
  /\ Len(suffix) <= Len(s)
  /\ SubSeq(s, Len(s) - Len(suffix) + 1, Len(s)) = suffix

\* s.replace(c, ''): the first occurrence of the character c is removed
replaceFirst(s, c) ==
  IF \E i \in 1..Len(s) : s[i] = c
  THEN LET k == CHOOSE i \in 1..Len(s) :
                  s[i] = c /\ \A j \in 1..(i - 1) : s[j] # c
       IN  SubSeq(s, 1, k - 1) \o SubSeq(s, k + 1, Len(s))
  ELSE s

S_jpg      == <<"j","p","g">>
S_jpeg     == <<"j","p","e","g">>
S_png      == <<"p","n","g">>
S_webp     == <<"w","e","b","p">>
S_gif      == <<"g","i","f">>
S_avif     == <<"a","v","i","f">>
S_tiff     == <<"t","i","f","f">>
S_svg      == <<"s","v","g">>
S_bmp      == <<"b","m","p">>
S_txt      == <<"t","x","t">>
S_original == <<"o","r","i","g","i","n","a","l">>
S_top      == <<"t","o","p">>
S_bottom   == <<"b","o","t","t","o","m">>
S_left     == <<"l","e","f","t">>
S_right    == <<"r","i","g","h","t">>
S_center   == <<"c","e","n","t","e","r">>

\* the file extension path.parse gives: "" or a dot and the rest
Ext(s) == <<".">> \o s
Upper(s) == [i \in 1..Len(s) |->
               IF \E k \in 1..Len(LowerChars) : LowerChars[k] = s[i]
               THEN UpperChars[CHOOSE k \in 1..Len(LowerChars) : LowerChars[k] = s[i]]
               ELSE s[i]]

\* ------------------------------------------------------------ pure parts

\* /\.(jpe?g|png|webp|gif|avif|tiff|svg)$/i
ImagePattern == {S_jpg, S_jpeg, S_png, S_webp, S_gif, S_avif, S_tiff, S_svg}

\* the pattern without its i flag
isImageFileCaseSensitive(ext) ==
  \E a \in ImagePattern : endsWith(ext, <<".">> \o a)

isImageFile(ext) ==
  \E a \in ImagePattern : endsWith(toLowerCase(ext), <<".">> \o a)

supportedOutputs == {S_jpeg, S_png, S_webp, S_avif, S_tiff}

\* the extension taken as it is spelled
candidateFormatCaseSensitive(selector, ext) ==
  IF selector = S_original
  THEN LET e == replaceFirst(ext, ".")
       IN  IF e = S_jpg THEN S_jpeg ELSE e
  ELSE selector

\* the candidate of lines 152-156: the selector, or the normalised extension
candidateFormat(selector, ext) ==
  IF selector = S_original
  THEN LET e == toLowerCase(replaceFirst(ext, "."))
       IN  IF e = S_jpg THEN S_jpeg ELSE e
  ELSE selector

outputFormatNoFallback(selector, ext, hasAlpha) == candidateFormat(selector, ext)

\* let outputFormat = ... (lines 152-161)
resolveOutputFormat(selector, ext, hasAlpha) ==
  LET c == candidateFormat(selector, ext)
  IN  IF c \notin supportedOutputs
      THEN (IF hasAlpha THEN S_png ELSE S_jpeg)
      ELSE c

\* `${fileInfo.name}.${outputFormat}`
outputFileName(stem, format) == [stem |-> stem, format |-> format]

S_north == <<"n","o","r","t","h">>
S_south == <<"s","o","u","t","h">>
S_east  == <<"e","a","s","t">>
S_west  == <<"w","e","s","t">>

\* a value that is not a string: typeof value
NotAString(kind) == << kind >>
IsString(v) == v \notin { NotAString("function"), NotAString("object") }

S___proto__ == <<"_","_","p","r","o","t","o","_","_">>

\* the members every plain object inherits from Object.prototype, as the set of
\* name/value pairs that obj[name] finds when obj has no own property of the name
ObjectPrototype ==
  { <<S___proto__, NotAString("object")>> } \cup
  { <<name, NotAString("function")>> : name \in
      { <<"c","o","n","s","t","r","u","c","t","o","r">>,
        <<"t","o","S","t","r","i","n","g">>,
        <<"v","a","l","u","e","O","f">>,
        <<"h","a","s","O","w","n","P","r","o","p","e","r","t","y">>,
        <<"i","s","P","r","o","t","o","t","y","p","e","O","f">>,
        <<"p","r","o","p","e","r","t","y","I","s","E","n","u","m","e","r","a","b","l","e">>,
        <<"t","o","L","o","c","a","l","e","S","t","r","i","n","g">>,
        <<"_","_","d","e","f","i","n","e","G","e","t","t","e","r","_","_">>,
        <<"_","_","d","e","f","i","n","e","S","e","t","t","e","r","_","_">>,
        <<"_","_","l","o","o","k","u","p","G","e","t","t","e","r","_","_">>,
        <<"_","_","l","o","o","k","u","p","S","e","t","t","e","r","_","_">> } }

Inherits(name) == \E kv \in ObjectPrototype : kv[1] = name
Inherited(name) == (CHOOSE kv \in ObjectPrototype : kv[1] = name)[2]

\* const gravityMap = {...} (lines 73-83), as the set of its own key/value pairs
gravityMap ==
  { <<S_top \o S_left,     S_north \o S_west>>,
    <<S_top,               S_north>>,
    <<S_top \o S_right,    S_north \o S_east>>,
    <<S_left,              S_west>>,
    <<S_center,            S_center>>,
    <<S_right,             S_east>>,
    <<S_bottom \o S_left,  S_south \o S_west>>,
    <<S_bottom,            S_south>>,
    <<S_bottom \o S_right, S_south \o S_east>> }

\* function positionToGravity(position); position is {} when undefined
positionToGravity(position) ==
  LET p == toLowerCase(IF position = None THEN <<>> ELSE Val(position))
  IN  IF \E kv \in gravityMap : kv[1] = p
      THEN (CHOOSE kv \in gravityMap : kv[1] = p)[2]
      ELSE IF Inherits(p) THEN Inherited(p)
      ELSE S_south \o S_east

\* the position compared with the edge names instead of searched for them
marginOffsetsExact(position, margin) ==
  LET posLower == toLowerCase(IF position = None THEN <<>> ELSE Val(position))
  IN  [top    |-> IF posLower = S_top THEN Some(margin) ELSE None,
       bottom |-> IF posLower = S_bottom THEN Some(margin) ELSE None,
       left   |-> IF posLower = S_left THEN Some(margin) ELSE None,
       right  |-> IF posLower = S_right THEN Some(margin) ELSE None]

\* let top, bottom, left, right (lines 221-234)
marginOffsets(position, margin) ==
  LET posLower == toLowerCase(IF position = None THEN <<>> ELSE Val(position))
  IN  [top    |-> IF includes(posLower, S_top) THEN Some(margin) ELSE None,
       bottom |-> IF ~includes(posLower, S_top) /\ includes(posLower, S_bottom)
                  THEN Some(margin) ELSE None,
       left   |-> IF includes(posLower, S_left) THEN Some(margin) ELSE None,
       right  |-> IF ~includes(posLower, S_left) /\ includes(posLower, S_right)
                  THEN Some(margin) ELSE None]

\* the composite descriptor of the image watermark (lines 237-245)
imageComposite(position, margin) ==
  LET o == marginOffsets(position, margin)
  IN  [op |-> "composite", kind |-> "image", blend |-> "over",
       gravity |-> positionToGravity(position),
       top |-> o.top, bottom |-> o.bottom, left |-> o.left, right |-> o.right]

\* Math.round(n / d) for n >= 0, d > 0
Round(n, d) == (2 * n + d) \div (2 * d)
Max(a, b) == IF a >= b THEN a ELSE b
Min(a, b) == IF a <= b THEN a ELSE b

RECURSIVE Pow2(_)
Pow2(k) == IF k = 0 THEN 1 ELSE 2 * Pow2(k - 1)

\* 2^k modulo d
RECURSIVE Pow2Mod(_, _)
Pow2Mod(k, d) == IF k = 0 THEN 1 % d ELSE (2 * Pow2Mod(k - 1, d)) % d

\* floor(log2(n / d)) for n, d > 0
RECURSIVE Log2Floor(_, _)
Log2Floor(n, d) ==
  IF n >= d THEN (IF n >= 2 * d THEN 1 + Log2Floor(n, 2 * d) ELSE 0)
  ELSE Log2Floor(2 * n, d) - 1

\* Math.round(w * s) in IEEE-754 double arithmetic, for an integer w >= 0 and
\* the number literal s = n / d (n >= 0, d > 0). The literal is the double
\* nearest to n / d and the product is rounded to a double before Math.round
\* sees it. Away from a half the result is the nearest integer; when w * n / d
\* is exactly k + 1/2 the result is k + 1 unless the literal's double lies below
\* n / d by enough for the product to round to a double below k + 1/2:
\*   r0 = n * 2^q mod d, q = 52 - floor(log2(n / d)), is d * 2^q times the
\*   amount by which the literal's double is below n / d (when r0 < d / 2), and
\*   the product stays at k + 1/2 iff w * r0 <= d * 2^(e - es - 1), e and es the
\*   binary exponents of k + 1/2 and of n / d (one less at k + 1/2 = 1/2).
MathRoundOfProduct(w, n, d) ==
  IF w = 0 \/ n = 0 THEN 0
  ELSE IF (2 * w * n) % (2 * d) # d THEN Round(w * n, d)
  ELSE LET k == (w * n) \div d
           es == Log2Floor(n, d)
           r0 == ((n % d) * Pow2Mod(52 - es, d)) % d
           e == Log2Floor(w * n, d)
           exp == e - es + (IF 2 * w * n = d THEN 0 ELSE 1)
           below == r0 # 0 /\ 2 * r0 < d
           stays == IF exp > Log2Floor(4 * w, 1) THEN TRUE
                    ELSE 4 * w * r0 <= d * Pow2(exp)
       IN  IF below /\ ~stays THEN k ELSE k + 1

\* Math.round(processedMetadata.width * WATERMARK.size) (line 202);
\* WATERMARK.size is the literal size[1] / size[2]
watermarkWidth(c, info) ==
  MathRoundOfProduct(info.width, c.WATERMARK.size[1], c.WATERMARK.size[2])

\* WATERMARK.fontSize || Math.max(16, Math.round(width * 0.02)) (line 254)
fontSize(c, info) ==
  IF c.WATERMARK.fontSize # None /\ Val(c.WATERMARK.fontSize) # 0
  THEN Val(c.WATERMARK.fontSize)
  ELSE Max(16, MathRoundOfProduct(info.width, 2, 100))

\* gravity.includes(...) on a value that is not a string (line 264)
TypeError == [throws |-> "TypeError: gravity.includes is not a function"]
Throws(v) == "throws" \in DOMAIN v

\* y at the top edge without the font size added
textAnchorNoFontSize(c, info) ==
  LET gravity == positionToGravity(c.WATERMARK.position)
      m == c.WATERMARK.margin
  IN  IF ~IsString(gravity) THEN TypeError ELSE
      [x2 |-> IF includes(gravity, S_west) THEN 2 * m
              ELSE IF includes(gravity, S_east) THEN 2 * (info.width - m)
              ELSE info.width,
       textAnchor |-> IF includes(gravity, S_west) THEN "start"
                      ELSE IF includes(gravity, S_east) THEN "end" ELSE "middle",
       y2 |-> IF includes(gravity, S_north) THEN 2 * m
              ELSE IF includes(gravity, S_south) THEN 2 * (info.height - m)
              ELSE info.height,
       alignmentBaseline |-> IF includes(gravity, S_north) THEN "hanging"
                             ELSE IF includes(gravity, S_south) THEN "alphabetic"
                             ELSE "middle"]

\* let x, y, textAnchor, alignmentBaseline (lines 261-285). x2 and y2 are twice
\* x and y, which are halves of integers at the centre
textAnchor(c, info) ==
  LET gravity == positionToGravity(c.WATERMARK.position)
      m == c.WATERMARK.margin
  IN  IF ~IsString(gravity) THEN TypeError ELSE
      [x2 |-> IF includes(gravity, S_west) THEN 2 * m
              ELSE IF includes(gravity, S_east) THEN 2 * (info.width - m)
              ELSE info.width,
       textAnchor |-> IF includes(gravity, S_west) THEN "start"
                      ELSE IF includes(gravity, S_east) THEN "end" ELSE "middle",
       y2 |-> IF includes(gravity, S_north) THEN 2 * (m + fontSize(c, info))
              ELSE IF includes(gravity, S_south) THEN 2 * (info.height - m)
              ELSE info.height,
       alignmentBaseline |-> IF includes(gravity, S_north) THEN "hanging"
                             ELSE IF includes(gravity, S_south) THEN "alphabetic"
                             ELSE "middle"]

\* s.replace(/c/g, r)
RECURSIVE replaceAll(_, _, _)
replaceAll(s, c, r) ==
  IF s = << >> THEN << >>
  ELSE (IF Head(s) = c THEN r ELSE << Head(s) >>) \o replaceAll(Tail(s), c, r)

E_amp  == <<"&","a","m","p",";">>
E_lt   == <<"&","l","t",";">>
E_gt   == <<"&","g","t",";">>
E_quot == <<"&","q","u","o","t",";">>
E_apos == <<"&","a","p","o","s",";">>

\* the apostrophe left as it is
escapeXmlNoApos(s) ==
  replaceAll(replaceAll(replaceAll(replaceAll(s, "&", E_amp), "<", E_lt), ">", E_gt),
             "\"", E_quot)

\* const escapeXml = (s) => String(s).replace(/&/g, '&amp;')... (lines 288-293)
escapeXml(s) ==
  replaceAll(replaceAll(replaceAll(replaceAll(replaceAll(
    s, "&", E_amp), "<", E_lt), ">", E_gt), "\"", E_quot), "'", E_apos)

S_white == <<"w","h","i","t","e">>
S_Arial == <<"A","r","i","a","l">>

\* value || fallback, for a string that may be undefined or empty
OrElse(value, fallback) ==
  IF value = None \/ Val(value) = << >> THEN fallback ELSE Val(value)

\* const svgText = Buffer.from(`<svg ...>`) (lines 296-315)
svgText(c, info) ==
  LET a == textAnchor(c, info)
  IN  IF Throws(a) THEN a ELSE
      [width |-> info.width, height |-> info.height,
       fill |-> OrElse(c.WATERMARK.fontColor, S_white),
       fontFamily |-> OrElse(c.WATERMARK.font, S_Arial),
       fontSize |-> fontSize(c, info),
       x2 |-> a.x2, y2 |-> a.y2,
       textAnchor |-> a.textAnchor, alignmentBaseline |-> a.alignmentBaseline,
       rotate |-> [angle |-> c.WATERMARK.angle, x2 |-> a.x2, y2 |-> a.y2],
       text |-> escapeXml(Val(c.WATERMARK.text))]

\* the composite descriptor of the text watermark (lines 318-322)
textComposite(c, info) ==
  IF Throws(svgText(c, info)) THEN svgText(c, info) ELSE
  [op |-> "composite", kind |-> "text", blend |-> "over",
   gravity |-> S_north \o S_west,
   top |-> None, bottom |-> None, left |-> None, right |-> None,
   input |-> svgText(c, info), base |-> info]

\* the alpha levels of the watermark image's pixels that are followed
SampleAlphas == { 0, 1, 127, 128, 254, 255 }

\* sharp's blend 'dest-in' on the alpha channel, 8 bits per channel: the
\* destination's alpha times the source's alpha over 255
destIn(alpha, maskAlpha) == Round(alpha * maskAlpha, 255)

\* the opacity byte truncated instead of rounded
opacityByteTruncated(opacity) == ((opacity[1] * 255) \div opacity[2]) % 256

\* Buffer.from([255, 255, 255, Math.round(WATERMARK.opacity * 255)]) (line 210):
\* the fourth byte; WATERMARK.opacity is the fraction opacity[1] / opacity[2],
\* and Buffer.from keeps the low eight bits of each number
opacityByte(opacity) == MathRoundOfProduct(255, opacity[1], opacity[2]) % 256

\* const watermarkBuffer = await sharp(...)...toBuffer() (lines 205-215)
watermarkBuffer(c, info) ==
  LET mask == [pixel |-> << 255, 255, 255, opacityByte(c.WATERMARK.opacity) >>,
               tile |-> TRUE, blend |-> "dest-in"]
  IN  [width |-> watermarkWidth(c, info),
       ensureAlpha |-> TRUE,
       mask |-> mask,
       alpha |-> [a \in SampleAlphas |-> destIn(a, mask.pixel[4])]]

\* the image composite with the watermark buffer it places (lines 202-245)
imageCompositeOn(c, info) ==
  imageComposite(c.WATERMARK.position, c.WATERMARK.margin)
    @@ [input |-> watermarkBuffer(c, info), base |-> info]

Step(name) == [op |-> name]

\* a resize request that lets the image grow
resizeStepsEnlarging(c) ==
  IF c.RESIZE.enabled
  THEN << [op |-> "resize", width |-> c.RESIZE.width, height |-> c.RESIZE.height,
           fit |-> c.RESIZE.fit, withoutEnlargement |-> FALSE] >>
  ELSE << >>

\* if (RESIZE.enabled) pipeline = pipeline.resize({...}) (lines 168-175)
resizeSteps(c) ==
  IF c.RESIZE.enabled
  THEN << [op |-> "resize", width |-> c.RESIZE.width, height |-> c.RESIZE.height,
           fit |-> c.RESIZE.fit, withoutEnlargement |-> TRUE] >>
  ELSE << >>

\* if (OPTIMIZATIONS.sharpen) pipeline = pipeline.sharpen() (lines 178-180)
sharpenSteps(c) == IF c.OPTIMIZATIONS.sharpen THEN << Step("sharpen") >> ELSE << >>

\* if (!OPTIMIZATIONS.removeMetadata) pipeline = pipeline.withMetadata() (183-185)
metadataSteps(c) ==
  IF ~c.OPTIMIZATIONS.removeMetadata THEN << Step("withMetadata") >> ELSE << >>

flattenAnyFormat(format, hasAlpha) == hasAlpha

\* if (outputFormat === 'jpeg' && metadata.hasAlpha) (line 188)
needsFlatten(format, hasAlpha) == format = S_jpeg /\ hasAlpha

flattenSteps(format, hasAlpha) ==
  IF needsFlatten(format, hasAlpha)
  THEN << [op |-> "flatten", background |-> "#ffffff"] >>
  ELSE << >>

\* quality passed to every encoder
formatOptionsQualityAlways(c, format) ==
  [quality          |-> Some(c.QUALITY),
   mozjpeg          |-> IF format = S_jpeg THEN Some(TRUE) ELSE None,
   compressionLevel |-> IF format = S_png THEN Some(9) ELSE None,
   lossless         |-> IF format = S_webp THEN Some(FALSE) ELSE None]

\* const formatOptions = {} ... (lines 329-343)
formatOptions(c, format) ==
  [quality          |-> IF format \in {S_jpeg, S_jpg, S_webp, S_avif, S_tiff}
                        THEN Some(c.QUALITY) ELSE None,
   mozjpeg          |-> IF format = S_jpeg THEN Some(TRUE) ELSE None,
   compressionLevel |-> IF format # S_jpeg /\ format = S_png THEN Some(9) ELSE None,
   lossless         |-> IF format \notin {S_jpeg, S_png} /\ format = S_webp
                        THEN Some(FALSE) ELSE None]

Size(w, h) == [width |-> w, height |-> h]

\* the size that keeps the aspect ratio at the requested width
atWidth(size, tw) == Size(tw, Max(1, Round(size.height * tw, size.width)))
atHeight(size, th) == Size(Max(1, Round(size.width * th, size.height)), th)

\* the output size of sharp's resize(options) on an image of the given size:
\* the fit modes of the library, and withoutEnlargement as the specification
\* states it (no output dimension beyond the source's)
resized(o, size) ==
  LET w == size.width
      h == size.height
      grow == ~o.withoutEnlargement
  IN  IF o.width = None /\ o.height = None THEN size
      ELSE IF o.height = None
      THEN IF ~grow /\ Val(o.width) > w THEN size ELSE atWidth(size, Val(o.width))
      ELSE IF o.width = None
      THEN IF ~grow /\ Val(o.height) > h THEN size ELSE atHeight(size, Val(o.height))
      ELSE LET tw == Val(o.width)
               th == Val(o.height)
               \* tw / w <= th / h: the width is the tighter constraint
               widthTighter == tw * h <= th * w
           IN  CASE o.fit = "inside" ->
                      IF widthTighter
                      THEN IF ~grow /\ tw > w THEN size ELSE atWidth(size, tw)
                      ELSE IF ~grow /\ th > h THEN size ELSE atHeight(size, th)
                 [] o.fit = "outside" ->
                      IF widthTighter
                      THEN IF ~grow /\ th > h THEN size ELSE atHeight(size, th)
                      ELSE IF ~grow /\ tw > w THEN size ELSE atWidth(size, tw)
                 [] OTHER ->
                      \* cover, contain, fill: the box itself
                      IF grow THEN Size(tw, th) ELSE Size(Min(tw, w), Min(th, h))

\* the size of the image a pipeline renders from a source of the given size
RECURSIVE rendered(_, _)
rendered(pipeline, size) ==
  IF pipeline = << >> THEN size
  ELSE rendered(Tail(pipeline),
                IF Head(pipeline).op = "resize" THEN resized(Head(pipeline), size)
                ELSE size)

\* the probe reading the source instead of the rendered pipeline
toBufferOfSource(pipeline, e) == Size(e.width, e.height)

\* const { info: processedMetadata } = await pipeline.clone().toBuffer(...)
\* (line 195)
toBuffer(pipeline, e) == rendered(pipeline, Size(e.width, e.height))

\* pipeline = pipeline.toFormat(outputFormat, formatOptions) (line 346)
toFormatStep(c, format) ==
  [op |-> "toFormat", format |-> format, options |-> formatOptions(c, format)]

\* ------------------------------------------------------------ inputs

S_Left   == <<"L">> \o Tail(S_left)
S_Right  == <<"R">> \o Tail(S_right)

\* the nine documented positions, as the README spells them
NamedPositions ==
  { S_top \o S_Left, S_top, S_top \o S_Right, S_left, S_center, S_right,
    S_bottom \o S_Left, S_bottom, S_bottom \o S_Right }

\* position strings outside the nine names
OtherPositions ==
  { << >>, <<"m","i","d","d","l","e">>, <<"u","p","p","e","r">> \o S_Left,
    S_north \o S_east, S___proto__,
    <<"C","o","n","s","t","r","u","c","t","o","r">> }

\* text: 'Copyright (c) 2025' with the copyright sign as one character (line 44)
S_Copyright == <<"C","o","p","y","r","i","g","h","t"," ","©"," ","2","0","2","5">>

\* the options block as committed (lines 16-55)
DefaultCfg ==
  [OUTPUT_FORMAT |-> S_jpeg,
   QUALITY       |-> 80,
   RESIZE        |-> [enabled |-> TRUE, width |-> Some(1200), height |-> None,
                      fit |-> "inside"],
   OPTIMIZATIONS |-> [sharpen |-> TRUE, removeMetadata |-> TRUE],
   WATERMARK     |-> [enabled |-> FALSE, type |-> "text",
                      imagePath |-> "./assets/watermark.png",
                      text |-> Some(S_Copyright),
                      position |-> Some(S_bottom \o S_Right),
                      font |-> Some(S_Arial),
                      fontColor |-> Some(<<"#","f","f","f","f","f","f">>),
                      opacity |-> <<3, 5>>,
                      margin |-> 20, fontSize |-> Some(20), angle |-> 0,
                      size |-> <<1, 5>>]]

File(stem, ext, hasAlpha, fault) ==
  [stem |-> stem, ext |-> ext, isDir |-> FALSE, hasAlpha |-> hasAlpha,
   fault |-> fault, size |-> 4, outSize |-> 2, width |-> 1920, height |-> 1080]

\* the file with other pixel dimensions
Sized(e, size) == [e EXCEPT !.width = size.width, !.height = size.height]

Directory(stem, fault) ==
  [stem |-> stem, ext |-> << >>, isDir |-> TRUE, hasAlpha |-> FALSE,
   fault |-> fault, size |-> 0, outSize |-> 0, width |-> 0, height |-> 0]

\* what can go wrong with one entry:
\*   stat   - fs.statSync(inputPath) throws (line 122), e.g. a dangling symlink
\*   decode - pipeline.metadata() rejects (line 148): not a valid image
\*   render - rendering the pipeline rejects (toBuffer line 195, toFile line 349)
\*   write  - only writing the output rejects (toFile, line 349)
\*   reread - reading the output back throws (lines 352-357)
Faults == {"none", "stat", "decode", "render", "write", "reread"}

Name(e) == <<e.stem, e.ext>>

\* the entries of the batch scenarios
BatchEntries ==
  { File("a", Ext(S_jpg), FALSE, "none"),
    File("a", Ext(S_png), TRUE, "none"),
    File("b", Ext(Upper(S_jpg)), FALSE, "decode"),
    File("c", Ext(S_jpg), FALSE, "stat"),
    File("e", Ext(S_webp), TRUE, "write"),
    File("f", Ext(S_gif), FALSE, "reread"),
    File("g", Ext(S_png), TRUE, "render"),
    File("n", Ext(S_txt), FALSE, "none"),
    Directory("d", "none") }

\* the listings of at most n entries with distinct names
RECURSIVE Listings(_, _)
Listings(universe, n) ==
  IF n = 0 THEN { << >> }
  ELSE LET shorter == Listings(universe, n - 1)
       IN  shorter \cup
           { Append(l, e) : <<l, e>> \in
               { x \in shorter \X universe :
                   /\ Len(x[1]) = n - 1
                   /\ \A i \in 1..Len(x[1]) : Name(x[1][i]) # Name(x[2]) } }

Disk(listable, entries, watermarkExists, watermarkValid) ==
  [listable |-> listable, entries |-> entries,
   watermarkExists |-> watermarkExists, watermarkValid |-> watermarkValid]

\* runs over whole directories
BatchScenarios ==
  { << [DefaultCfg EXCEPT !.OUTPUT_FORMAT = f, !.WATERMARK.enabled = w],
       Disk(TRUE, l, FALSE, FALSE) >> :
      <<f, w, l>> \in {S_jpeg, S_original} \X BOOLEAN \X Listings(BatchEntries, MaxFiles) }
  \cup { << [DefaultCfg EXCEPT !.OUTPUT_FORMAT = f, !.WATERMARK.enabled = w],
            Disk(FALSE, << >>, w, w) >> :
           <<f, w>> \in {S_jpeg, S_original} \X BOOLEAN }

Selectors ==
  { S_original, S_jpeg, S_png, S_webp, S_avif, S_tiff, S_gif, S_jpg, S_bmp,
    Upper(S_png) }

Extensions ==
  { Ext(x) : x \in ImagePattern } \cup { Ext(Upper(x)) : x \in ImagePattern }
  \cup { <<".","J","p","g">>, <<".","t","i","f">>, Ext(S_txt), << >> }

\* one file, every selector, every extension
FormatScenarios ==
  { << [DefaultCfg EXCEPT !.OUTPUT_FORMAT = f],
       Disk(TRUE, << File("a", x, al, "none") >>, FALSE, FALSE) >> :
      <<f, x, al>> \in Selectors \X Extensions \X BOOLEAN }

WatermarkFiles == { <<FALSE, FALSE>>, <<TRUE, FALSE>>, <<TRUE, TRUE>> }
WatermarkTypes == { "image", "text", "logo" }
WatermarkTexts == { None, Some(<< >>), Some(<<"c">>) }
PlanSources == { <<Ext(S_png), TRUE>>, <<Ext(S_jpg), FALSE>>, <<Ext(S_svg), TRUE>> }

\* one file, every combination of the optional steps
PlanScenarios ==
  { << [DefaultCfg EXCEPT !.OUTPUT_FORMAT = f, !.RESIZE.enabled = r,
                          !.OPTIMIZATIONS.sharpen = sh,
                          !.OPTIMIZATIONS.removeMetadata = rm,
                          !.WATERMARK.enabled = w[1], !.WATERMARK.type = w[2]],
       Disk(TRUE, << File("a", src[1], src[2], "none") >>, TRUE, TRUE) >> :
      <<f, r, sh, rm, w, src>> \in
        {S_jpeg, S_png, S_original} \X BOOLEAN \X BOOLEAN \X BOOLEAN
        \X { <<FALSE, "text">>, <<TRUE, "text">>, <<TRUE, "image">> }
        \X PlanSources }

\* one file, every watermark dispatch, every fault
WatermarkScenarios ==
  { << [DefaultCfg EXCEPT !.OUTPUT_FORMAT = f,
                          !.OPTIMIZATIONS.removeMetadata = rm,
                          !.WATERMARK.enabled = TRUE, !.WATERMARK.type = ty,
                          !.WATERMARK.text = tx],
       Disk(TRUE, << File("a", Ext(S_png), al, fault) >>, wf[1], wf[2]) >> :
      <<f, rm, ty, tx, wf, al, fault>> \in
        {S_jpeg, S_png} \X BOOLEAN \X WatermarkTypes \X WatermarkTexts
        \X WatermarkFiles \X BOOLEAN \X Faults }

Margins == { 0, 1, 20 }

SourceSizes == { Size(1920, 1080), Size(301, 200), Size(100, 301) }

\* WATERMARK.fontSize and WATERMARK.angle
FontSettings == { <<None, 0>>, <<Some(0), 0>>, <<Some(24), 45>> }

\* one file, every position
GeometryScenarios ==
  { << [DefaultCfg EXCEPT !.WATERMARK.enabled = TRUE, !.WATERMARK.type = ty,
                          !.WATERMARK.position = pos, !.WATERMARK.margin = m,
                          !.WATERMARK.fontSize = fs[1], !.WATERMARK.angle = fs[2]],
       Disk(TRUE, << Sized(File("a", Ext(S_png), TRUE, "none"), sz) >>, TRUE, TRUE) >> :
      <<ty, pos, m, fs, sz>> \in
        {"image", "text"}
        \X ({ Some(q) : q \in NamedPositions \cup OtherPositions } \cup { None }
            \cup { Some(toLowerCase(q)) : q \in NamedPositions })
        \X Margins \X FontSettings \X SourceSizes }

ResizeTargets == { None, Some(50), Some(800), Some(4000) }
Fits == { "cover", "contain", "fill", "inside", "outside" }

\* one file, every resize request
ResizeScenarios ==
  { << [DefaultCfg EXCEPT !.RESIZE = [enabled |-> r, width |-> tw, height |-> th,
                                      fit |-> fit],
                          !.WATERMARK.enabled = w[1], !.WATERMARK.type = w[2],
                          !.WATERMARK.fontSize = None],
       Disk(TRUE, << Sized(File("a", Ext(S_jpg), FALSE, "none"), sz) >>, TRUE, TRUE) >> :
      <<r, tw, th, fit, w, sz>> \in
        BOOLEAN \X ResizeTargets \X ResizeTargets \X Fits
        \X { <<FALSE, "text">>, <<TRUE, "text">>, <<TRUE, "image">> }
        \X SourceSizes }

TextChars == { "&", "<", ">", "\"", "'", "a", ";" }

\* the strings over TextChars of length n
RECURSIVE Strings(_)
Strings(n) ==
  IF n = 0 THEN { << >> }
  ELSE { Append(t, ch) : <<t, ch>> \in Strings(n - 1) \X TextChars }

\* one file, every watermark text
TextScenarios ==
  { << [DefaultCfg EXCEPT !.WATERMARK.enabled = TRUE, !.WATERMARK.text = Some(t)],
       Disk(TRUE, << File("a", Ext(S_jpg), FALSE, "none") >>, FALSE, FALSE) >> :
      t \in UNION { Strings(n) : n \in 0..MaxTextLen } }

\* WATERMARK.font and WATERMARK.fontColor
FontStrings ==
  { None, Some(<< >>), Some(S_Arial), Some(<<"r","e","d">>),
    Some(<<"a","&","b">>), Some(<<"'","a","'">>),
    Some(<<"<","/","s","t","y","l","e",">","<","a","/",">">>) }

\* one file, every font and colour string
FontScenarios ==
  { << [DefaultCfg EXCEPT !.WATERMARK.enabled = TRUE, !.WATERMARK.font = fo,
                          !.WATERMARK.fontColor = co, !.WATERMARK.text = Some(t)],
       Disk(TRUE, << File("a", Ext(S_jpg), FALSE, "none") >>, FALSE, FALSE) >> :
      <<fo, co, t>> \in FontStrings \X FontStrings \X { <<"c">>, <<"<", "c">> } }

\* WATERMARK.opacity as a fraction: the hundredths, the values whose product
\* with 255 ends in one half, and one value above 1
Opacities ==
  { <<n, 100>> : n \in 0..100 } \cup { <<n, 510>> : n \in 0..510 } \cup { <<3, 2>> }

\* one file, every opacity of the image watermark
OpacityScenarios ==
  { << [DefaultCfg EXCEPT !.WATERMARK.enabled = TRUE, !.WATERMARK.type = "image",
                          !.WATERMARK.opacity = o],
       Disk(TRUE, << File("a", Ext(S_png), TRUE, "none") >>, TRUE, TRUE) >> :
      o \in Opacities }

\* WATERMARK.size as a number literal n / d
WatermarkSizes == { <<1, 5>>, <<35, 100>>, <<7, 10>>, <<29, 100>>, <<1, 2>> }

\* one file, every size of the image watermark
SizeScenarios ==
  { << [DefaultCfg EXCEPT !.RESIZE.enabled = r,
                          !.WATERMARK.enabled = TRUE, !.WATERMARK.type = "image",
                          !.WATERMARK.size = z],
       Disk(TRUE, << Sized(File("a", Ext(S_png), TRUE, "none"), sz) >>, TRUE, TRUE) >> :
      <<r, z, sz>> \in BOOLEAN \X WatermarkSizes
                       \X { Size(90, 60), Size(45, 60), Size(50, 60), Size(1925, 60) } }

Scenarios ==
  SizeScenarios \cup OpacityScenarios \cup FontScenarios \cup BatchScenarios \cup FormatScenarios \cup PlanScenarios
  \cup WatermarkScenarios \cup GeometryScenarios \cup ResizeScenarios
  \cup TextScenarios

\* ------------------------------------------------------------ processImages

NoFile ==
  [outputFormat |-> << >>, hasAlpha |-> FALSE, pipeline |-> << >>,
   outputFileName |-> None, processedMetadata |-> None]

NoTally == [started |-> 0, succeeded |-> 0, errored |-> 0, skipped |-> 0]

Line(msg, i) == [msg |-> msg, file |-> i]

\* lines 91-103
Init ==
  /\ \E sc \in Scenarios : cfg = sc[1] /\ disk = sc[2]
  /\ pc = "readdir"
  /\ files = << >>
  /\ idx = 0
  /\ stats = [totalProcessed |-> 0, totalInputSize |-> 0, totalOutputSize |-> 0,
              successCount |-> 0, errorCount |-> 0, skippedCount |-> 0,
              formatCounts |-> << >>, watermarked |-> 0]
  /\ cur = NoFile
  /\ written = << >>
  /\ log = << >>
  /\ ret = "pending"
  /\ tally = << >>

Entry == files[idx]

\* } catch (error) { console.error('An error occurred:', ...) }  return stats
\* (lines 428-432)
OuterCatch ==
  /\ log' = Append(log, Line("An error occurred", 0))
  /\ ret' = "stats"
  /\ pc' = "done"

\* } catch (error) { stats.errorCount++; ... } (lines 374-378), then the next entry
FileCatchFrom(st) ==
  /\ stats' = [st EXCEPT !.errorCount = @ + 1]
  /\ log' = Append(log, Line("Error processing", idx))
  /\ tally' = [tally EXCEPT ![idx].errored = @ + 1]
  /\ idx' = idx + 1
  /\ cur' = NoFile
  /\ pc' = "stat"

\* the per-file catch when the step has not changed the statistics before it
FileCatch == FileCatchFrom(stats)

\* the completion message printed after the fatal error as well
ReadDirFailsThenCompletes ==
  /\ pc = "readdir"
  /\ ~disk.listable
  /\ log' = log \o << Line("An error occurred", 0), Line("completed", 0) >>
  /\ ret' = "stats"
  /\ pc' = "done"
  /\ UNCHANGED <<cfg, disk, files, idx, stats, cur, written, tally>>

\* fs.readdirSync(INPUT_DIR) throws (line 107)
ReadDirFails ==
  /\ pc = "readdir"
  /\ ~disk.listable
  /\ OuterCatch
  /\ UNCHANGED <<cfg, disk, files, idx, stats, cur, written, tally>>

\* if (files.length === 0) { ...; return; } (lines 109-112)
ReadDirEmpty ==
  /\ pc = "readdir"
  /\ disk.listable
  /\ Len(disk.entries) = 0
  /\ log' = Append(log, Line("No files found", 0))
  /\ ret' = "undefined"
  /\ pc' = "done"
  /\ UNCHANGED <<cfg, disk, files, idx, stats, cur, written, tally>>

\* lines 107-115
ReadDirOk ==
  /\ pc = "readdir"
  /\ disk.listable
  /\ Len(disk.entries) # 0
  /\ files' = disk.entries
  /\ idx' = 1
  /\ tally' = [i \in 1..Len(disk.entries) |-> NoTally]
  /\ log' = Append(log, Line("Found files", 0))
  /\ pc' = "stat"
  /\ UNCHANGED <<cfg, disk, stats, cur, written, ret>>

\* fs.statSync(inputPath) throws (line 122, outside the per-file try)
StatFails ==
  /\ pc = "stat"
  /\ idx <= Len(files)
  /\ Entry.fault = "stat"
  /\ tally' = [tally EXCEPT ![idx].started = @ + 1]
  /\ OuterCatch
  /\ UNCHANGED <<cfg, disk, files, idx, stats, cur, written>>

\* a directory passed over without being counted
SkipDirectoryUncounted ==
  /\ pc = "stat"
  /\ idx <= Len(files)
  /\ Entry.fault # "stat"
  /\ Entry.isDir
  /\ log' = Append(log, Line("Skipping directory", idx))
  /\ tally' = [tally EXCEPT ![idx].started = @ + 1]
  /\ idx' = idx + 1
  /\ UNCHANGED <<cfg, disk, pc, files, stats, cur, written, ret>>

\* if (fs.statSync(inputPath).isDirectory()) {...; continue; } (lines 122-126)
SkipDirectory ==
  /\ pc = "stat"
  /\ idx <= Len(files)
  /\ Entry.fault # "stat"
  /\ Entry.isDir
  /\ log' = Append(log, Line("Skipping directory", idx))
  /\ stats' = [stats EXCEPT !.skippedCount = @ + 1]
  /\ tally' = [tally EXCEPT ![idx].started = @ + 1, ![idx].skipped = @ + 1]
  /\ idx' = idx + 1
  /\ UNCHANGED <<cfg, disk, pc, files, cur, written, ret>>

\* if (!isImageFile) {...; continue; } (lines 130-137)
SkipNonImage ==
  /\ pc = "stat"
  /\ idx <= Len(files)
  /\ Entry.fault # "stat"
  /\ ~Entry.isDir
  /\ ~isImageFile(Entry.ext)
  /\ log' = Append(log, Line("Skipping non-image file", idx))
  /\ stats' = [stats EXCEPT !.skippedCount = @ + 1]
  /\ tally' = [tally EXCEPT ![idx].started = @ + 1, ![idx].skipped = @ + 1]
  /\ idx' = idx + 1
  /\ UNCHANGED <<cfg, disk, pc, files, cur, written, ret>>

\* lines 139-148, up to await pipeline.metadata()
OpenImage ==
  /\ pc = "stat"
  /\ idx <= Len(files)
  /\ Entry.fault # "stat"
  /\ ~Entry.isDir
  /\ isImageFile(Entry.ext)
  /\ log' = Append(log, Line("Processing", idx))
  /\ tally' = [tally EXCEPT ![idx].started = @ + 1]
  /\ cur' = [NoFile EXCEPT !.pipeline = << Step("sharp"), Step("rotate") >>]
  /\ pc' = "metadata"
  /\ UNCHANGED <<cfg, disk, files, idx, stats, written, ret>>

\* the flatten step planned ahead of the other steps
plannedPipelineFlattenFirst(c, pipeline, format, hasAlpha) ==
  pipeline \o flattenSteps(format, hasAlpha) \o resizeSteps(c) \o sharpenSteps(c)
           \o metadataSteps(c)

\* the pipeline after lines 167-190
plannedPipeline(c, pipeline, format, hasAlpha) ==
  pipeline \o resizeSteps(c) \o sharpenSteps(c) \o metadataSteps(c)
           \o flattenSteps(format, hasAlpha)

\* lines 328-349, up to await pipeline.toFile(outputPath)
Encode(c, locals) ==
  [locals EXCEPT !.pipeline = Append(@, toFormatStep(c, locals.outputFormat))]

\* await pipeline.metadata() settles; lines 149-195 (or 149-349 without watermark)
Metadata ==
  /\ pc = "metadata"
  /\ IF Entry.fault = "decode"
     THEN /\ FileCatch
          /\ UNCHANGED <<cfg, disk, files, written, ret>>
     ELSE LET format == resolveOutputFormat(cfg.OUTPUT_FORMAT, Entry.ext, Entry.hasAlpha)
              planned == [outputFormat   |-> format,
                          hasAlpha       |-> Entry.hasAlpha,
                          pipeline       |-> plannedPipeline(cfg, cur.pipeline, format,
                                                             Entry.hasAlpha),
                          outputFileName |-> Some(outputFileName(Entry.stem, format)),
                          processedMetadata |-> None]
          IN  /\ log' = Append(log, Line("Original", idx))
              /\ IF cfg.WATERMARK.enabled
                 THEN cur' = planned /\ pc' = "probe"
                 ELSE cur' = Encode(cfg, planned) /\ pc' = "toFile"
              /\ UNCHANGED <<cfg, disk, files, idx, stats, written, ret, tally>>

imageWatermarkAlways(c, d) == c.WATERMARK.type = "image"

\* WATERMARK.type === 'image' && fs.existsSync(WATERMARK.imagePath) (line 197)
imageWatermark(c, d) == c.WATERMARK.type = "image" /\ d.watermarkExists

\* WATERMARK.type === 'text' && WATERMARK.text (line 249)
textWatermark(c, d) ==
  /\ ~imageWatermark(c, d)
  /\ c.WATERMARK.type = "text"
  /\ c.WATERMARK.text # None
  /\ Val(c.WATERMARK.text) # << >>

\* await pipeline.clone().toBuffer(...) settles (line 195); lines 197-205, or
\* 249-349, or 328-349
Probe ==
  /\ pc = "probe"
  /\ IF Entry.fault = "render"
     THEN /\ FileCatch
          /\ UNCHANGED <<cfg, disk, files, written, ret>>
     ELSE LET info == toBuffer(cur.pipeline, Entry)
              probed == [cur EXCEPT !.processedMetadata = Some(info)]
              counted == [stats EXCEPT !.watermarked = @ + 1]
          IN  IF imageWatermark(cfg, disk)
              THEN /\ stats' = counted
                   /\ cur' = probed
                   /\ pc' = "watermarkBuffer"
                   /\ UNCHANGED <<cfg, disk, files, idx, written, ret, tally, log>>
              ELSE IF textWatermark(cfg, disk) /\ Throws(textComposite(cfg, info))
              THEN \* stats.watermarked++ (line 251), then the TypeError of
                   \* line 264 and the catch of lines 374-378
                   /\ FileCatchFrom(counted)
                   /\ UNCHANGED <<cfg, disk, files, written, ret>>
              ELSE IF textWatermark(cfg, disk)
              THEN /\ stats' = counted
                   /\ cur' = Encode(cfg, [probed EXCEPT !.pipeline =
                                            Append(@, textComposite(cfg, info))])
                   /\ log' = Append(log, Line("Applied text watermark", idx))
                   /\ pc' = "toFile"
                   /\ UNCHANGED <<cfg, disk, files, idx, written, ret, tally>>
              ELSE /\ cur' = Encode(cfg, probed)
                   /\ pc' = "toFile"
                   /\ UNCHANGED <<cfg, disk, files, idx, written, ret, tally, stats, log>>

\* await sharp(WATERMARK.imagePath)...toBuffer() settles (lines 205-215);
\* lines 217-247 and 328-349
WatermarkBuffer ==
  /\ pc = "watermarkBuffer"
  /\ IF ~disk.watermarkValid
     THEN /\ FileCatch
          /\ UNCHANGED <<cfg, disk, files, written, ret>>
     ELSE /\ cur' = Encode(cfg, [cur EXCEPT !.pipeline =
                      Append(@, imageCompositeOn(cfg, Val(cur.processedMetadata)))])
          /\ log' = Append(log, Line("Applied image watermark", idx))
          /\ pc' = "toFile"
          /\ UNCHANGED <<cfg, disk, files, idx, stats, written, ret, tally>>

\* a rejected toFile that leaves its partial output behind
ToFileLeavesPartial ==
  /\ pc = "toFile"
  /\ IF Entry.fault \in {"render", "write"}
     THEN /\ written' = Append(written, [file |-> idx, name |-> Val(cur.outputFileName)])
          /\ FileCatch
          /\ UNCHANGED <<cfg, disk, files, ret>>
     ELSE /\ written' = Append(written, [file |-> idx, name |-> Val(cur.outputFileName)])
          /\ pc' = "reread"
          /\ UNCHANGED <<cfg, disk, files, idx, stats, cur, log, ret, tally>>

\* toFile started and the loop continued without awaiting it
ToFileNotAwaited ==
  /\ pc = "toFile"
  /\ written' = Append(written, [file |-> idx, name |-> Val(cur.outputFileName)])
  /\ idx' = idx + 1
  /\ cur' = NoFile
  /\ pc' = "stat"
  /\ UNCHANGED <<cfg, disk, files, stats, log, ret, tally>>

\* await pipeline.toFile(outputPath) settles (line 349)
ToFile ==
  /\ pc = "toFile"
  /\ IF Entry.fault \in {"render", "write"}
     THEN /\ FileCatch
          /\ UNCHANGED <<cfg, disk, files, written, ret>>
     ELSE /\ written' = Append(written, [file |-> idx, name |-> Val(cur.outputFileName)])
          /\ pc' = "reread"
          /\ UNCHANGED <<cfg, disk, files, idx, stats, cur, log, ret, tally>>

\* the count that ++ leaves on a value that is not a number
NaN == -1

\* if (!formatCounts[f]) formatCounts[f] = 0; formatCounts[f]++
\* (lines 365-368; image-processor.js lines 109-112). formatCounts is a plain
\* object: a name it inherits from Object.prototype reads as a truthy value, is
\* not reset to 0 and becomes NaN by ++ (an assignment to __proto__ of a value
\* that is not an object adds no key); NaN is falsy and is reset on the next count
countFormat(formatCounts, format) ==
  IF format \in DOMAIN formatCounts
  THEN IF formatCounts[format] \in {0, NaN}
       THEN [formatCounts EXCEPT ![format] = 1]
       ELSE [formatCounts EXCEPT ![format] = @ + 1]
  ELSE IF format = S___proto__ THEN formatCounts
  ELSE IF Inherits(format) THEN formatCounts @@ (format :> NaN)
  ELSE formatCounts @@ (format :> 1)

\* lines 352-372
Reread ==
  /\ pc = "reread"
  /\ IF Entry.fault = "reread"
     THEN /\ FileCatch
          /\ UNCHANGED <<cfg, disk, files, written, ret>>
     ELSE /\ stats' = [stats EXCEPT
                         !.totalProcessed = @ + 1,
                         !.successCount = @ + 1,
                         !.totalInputSize = @ + Entry.size,
                         !.totalOutputSize = @ + Entry.outSize,
                         !.formatCounts = countFormat(@, cur.outputFormat)]
          /\ log' = Append(log, Line("Done", idx))
          /\ tally' = [tally EXCEPT ![idx].succeeded = @ + 1]
          /\ idx' = idx + 1
          /\ cur' = NoFile
          /\ pc' = "stat"
          /\ UNCHANGED <<cfg, disk, files, written, ret>>

\* lines 381-427 and return stats (line 432)
Summary ==
  /\ pc = "stat"
  /\ idx > Len(files)
  /\ log' = log \o << Line("SUMMARY REPORT", 0), Line("completed", 0) >>
  /\ ret' = "stats"
  /\ pc' = "done"
  /\ UNCHANGED <<cfg, disk, files, idx, stats, cur, written, tally>>

Next ==
  \/ ReadDirFails
  \/ ReadDirEmpty
  \/ ReadDirOk
  \/ StatFails
  \/ SkipDirectory
  \/ SkipNonImage
  \/ OpenImage
  \/ Metadata
  \/ Probe
  \/ WatermarkBuffer
  \/ ToFile
  \/ Reread
  \/ Summary

Spec == Init /\ [][Next]_vars

\* processImages is one async function on the event loop: a step that can be
\* taken is taken
FairSpec == Spec /\ WF_vars(Next)

\* ------------------------------------------------------------ src/image-processor.js
\* processImages of src/image-processor.js, the processor without watermarks, on
\* the same variables. Its listing, directory and extension handling, its toFile
\* step and its per-file catch are the code of the actions above.

\* let outputFormat = OUTPUT_FORMAT ... (image-processor.js lines 100-106)
ipOutputFormat(selector, ext) ==
  IF selector = S_original
  THEN LET e == replaceFirst(ext, ".")
       IN  IF e = S_jpg THEN S_jpeg ELSE e
  ELSE selector

\* if (OPTIMIZATIONS.removeMetadata) pipeline = pipeline.withMetadata(false)
\* (image-processor.js lines 140-142)
ipMetadataSteps(c) ==
  IF c.OPTIMIZATIONS.removeMetadata
  THEN << [op |-> "withMetadata", withMetadata |-> FALSE] >>
  ELSE << >>

\* the entries of the runs of image-processor.js: extensions that are output
\* formats as they are spelled
IpEntries ==
  { File("a", Ext(S_jpg), FALSE, "none"),
    File("a", Ext(S_png), TRUE, "none"),
    File("b", Ext(S_jpg), FALSE, "decode"),
    File("c", Ext(S_jpg), FALSE, "stat"),
    File("e", Ext(S_webp), TRUE, "write"),
    File("f", Ext(S_png), FALSE, "reread"),
    File("g", Ext(S_jpeg), FALSE, "render"),
    File("n", Ext(S_txt), FALSE, "none"),
    Directory("d", "none") }

IpScenarios ==
  { << [DefaultCfg EXCEPT !.OUTPUT_FORMAT = f, !.RESIZE.enabled = r,
                          !.OPTIMIZATIONS.removeMetadata = rm],
       Disk(TRUE, l, FALSE, FALSE) >> :
      <<f, r, rm, l>> \in {S_jpeg, S_original} \X BOOLEAN \X BOOLEAN
                          \X Listings(IpEntries, MaxFiles) }
  \cup { << DefaultCfg, Disk(FALSE, << >>, FALSE, FALSE) >> }

\* image-processor.js lines 50-62
IpInit ==
  /\ \E sc \in IpScenarios : cfg = sc[1] /\ disk = sc[2]
  /\ pc = "readdir"
  /\ files = << >>
  /\ idx = 0
  /\ stats = [totalProcessed |-> 0, totalInputSize |-> 0, totalOutputSize |-> 0,
              successCount |-> 0, errorCount |-> 0, skippedCount |-> 0,
              formatCounts |-> << >>]
  /\ cur = NoFile
  /\ written = << >>
  /\ log = << >>
  /\ ret = "pending"
  /\ tally = << >>

\* processImages().then(() => console.log('... completed successfully!'))
\* (image-processor.js lines 258-261): printed whenever the promise resolves
IpResolved(lines, value) ==
  /\ log' = log \o lines \o << Line("completed", 0) >>
  /\ ret' = value
  /\ pc' = "done"

\* fs.readdirSync(INPUT_DIR) throws (image-processor.js line 66); lines 238-242
IpReadDirFails ==
  /\ pc = "readdir"
  /\ ~disk.listable
  /\ IpResolved(<< Line("An error occurred", 0) >>, "stats")
  /\ UNCHANGED <<cfg, disk, files, idx, stats, cur, written, tally>>

\* if (files.length === 0) {...; return; } (image-processor.js lines 68-71)
IpReadDirEmpty ==
  /\ pc = "readdir"
  /\ disk.listable
  /\ Len(disk.entries) = 0
  /\ IpResolved(<< Line("No files found", 0) >>, "undefined")
  /\ UNCHANGED <<cfg, disk, files, idx, stats, cur, written, tally>>

\* fs.statSync(inputPath) throws (image-processor.js line 81, outside the
\* per-file try)
IpStatFails ==
  /\ pc = "stat"
  /\ idx <= Len(files)
  /\ Entry.fault = "stat"
  /\ tally' = [tally EXCEPT ![idx].started = @ + 1]
  /\ IpResolved(<< Line("An error occurred", 0) >>, "stats")
  /\ UNCHANGED <<cfg, disk, files, idx, stats, cur, written>>

\* image-processor.js lines 97-122, up to await pipeline.metadata()
IpOpenImage ==
  /\ pc = "stat"
  /\ idx <= Len(files)
  /\ Entry.fault # "stat"
  /\ ~Entry.isDir
  /\ isImageFile(Entry.ext)
  /\ log' = Append(log, Line("Processing", idx))
  /\ tally' = [tally EXCEPT ![idx].started = @ + 1]
  /\ LET format == ipOutputFormat(cfg.OUTPUT_FORMAT, Entry.ext)
     IN  /\ stats' = [stats EXCEPT !.formatCounts = countFormat(@, format)]
         /\ cur' = [NoFile EXCEPT !.outputFormat = format,
                                  !.outputFileName = Some(outputFileName(Entry.stem, format)),
                                  !.pipeline = << Step("sharp") >>]
  /\ pc' = "metadata"
  /\ UNCHANGED <<cfg, disk, files, idx, written, ret>>

\* await pipeline.metadata() settles (image-processor.js line 122); lines 123-165
IpMetadata ==
  /\ pc = "metadata"
  /\ IF Entry.fault = "decode"
     THEN /\ FileCatch
          /\ UNCHANGED <<cfg, disk, files, written, ret>>
     ELSE /\ log' = Append(log, Line("Original", idx))
          /\ cur' = Encode(cfg, [cur EXCEPT
                        !.hasAlpha = Entry.hasAlpha,
                        !.pipeline = @ \o resizeSteps(cfg) \o sharpenSteps(cfg)
                                       \o ipMetadataSteps(cfg)])
          /\ pc' = "toFile"
          /\ UNCHANGED <<cfg, disk, files, idx, stats, written, ret, tally>>

\* image-processor.js lines 168-184
IpReread ==
  /\ pc = "reread"
  /\ IF Entry.fault = "reread"
     THEN /\ FileCatch
          /\ UNCHANGED <<cfg, disk, files, written, ret>>
     ELSE /\ stats' = [stats EXCEPT
                         !.totalProcessed = @ + 1,
                         !.successCount = @ + 1,
                         !.totalInputSize = @ + Entry.size,
                         !.totalOutputSize = @ + Entry.outSize]
          /\ log' = Append(log, Line("Done", idx))
          /\ tally' = [tally EXCEPT ![idx].succeeded = @ + 1]
          /\ idx' = idx + 1
          /\ cur' = NoFile
          /\ pc' = "stat"
          /\ UNCHANGED <<cfg, disk, files, written, ret>>

\* image-processor.js lines 193-242, then lines 258-261
IpSummary ==
  /\ pc = "stat"
  /\ idx > Len(files)
  /\ IpResolved(<< Line("SUMMARY REPORT", 0) >>, "stats")
  /\ UNCHANGED <<cfg, disk, files, idx, stats, cur, written, tally>>

IpNext ==
  \/ IpReadDirFails
  \/ IpReadDirEmpty
  \/ ReadDirOk
  \/ IpStatFails
  \/ SkipDirectory
  \/ SkipNonImage
  \/ IpOpenImage
  \/ IpMetadata
  \/ ToFile
  \/ IpReread
  \/ IpSummary

IpSpec == IpInit /\ [][IpNext]_vars

\* ------------------------------------------------------------ properties

SummaryPrinted == \E k \in 1..Len(log) : log[k].msg = "SUMMARY REPORT"
SummaryCount == Cardinality({ k \in 1..Len(log) : log[k].msg = "SUMMARY REPORT" })
Ended == pc = "done"

\* the current file has its output format and its planned steps
Planned == pc \in {"probe", "watermarkBuffer", "toFile", "reread"}
\* the current file's pipeline is complete, up to and including toFormat
Encoded == pc \in {"toFile", "reread"}

Outcomes(i) == tally[i].succeeded + tally[i].errored + tally[i].skipped

RECURSIVE SumOver(_, _)
SumOver(f, n) == IF n = 0 THEN 0 ELSE f[n] + SumOver(f, n - 1)

\* C1: fault isolation. Once a run whose directory could be listed has ended,
\* every entry of the listing has been handled once and has one outcome, and an
\* entry whose handling raised a failure (here: its stat) is counted as one
\* error; no failure of a file ends the run early.
C1_FaultIsolation ==
  (Ended /\ disk.listable) =>
    \A i \in 1..Len(disk.entries) :
      /\ i <= Len(tally)
      /\ tally[i].started = 1
      /\ Outcomes(i) = 1
      /\ (disk.entries[i].fault = "stat" => tally[i].errored = 1)

\* C2: a run whose directory could be listed, and holds at least one entry, has
\* printed the summary exactly once when it ends, whatever happened to the files.
C2_SummaryOnce ==
  (Ended /\ disk.listable /\ Len(disk.entries) > 0) => SummaryCount = 1

\* C3: exactly-once accounting. When the summary has been printed, every entry
\* was handled exactly once and counted in exactly one of succeeded, errored,
\* skipped; the three counters are the sums of these and add up to the number
\* of entries; a single undecodable image file gives errored = 1 and nothing else.
C3_ExactlyOnce ==
  SummaryPrinted =>
    /\ \A i \in 1..Len(files) : tally[i].started = 1 /\ Outcomes(i) = 1
    /\ stats.successCount = SumOver([i \in 1..Len(files) |-> tally[i].succeeded], Len(files))
    /\ stats.errorCount = SumOver([i \in 1..Len(files) |-> tally[i].errored], Len(files))
    /\ stats.skippedCount = SumOver([i \in 1..Len(files) |-> tally[i].skipped], Len(files))
    /\ stats.successCount + stats.errorCount + stats.skippedCount = Len(files)
    /\ (/\ Len(files) = 1
        /\ ~files[1].isDir
        /\ files[1].ext \in {Ext(S_jpg), Ext(Upper(S_jpg))}
        /\ files[1].fault = "decode")
       => (stats.errorCount = 1 /\ stats.successCount = 0 /\ stats.skippedCount = 0)

\* a run of three entries with one of each outcome, the error an undecodable image
C3_Witness ==
  /\ SummaryPrinted
  /\ Len(files) = 3
  /\ \E i, j, k \in 1..3 :
       /\ tally[i].succeeded = 1
       /\ tally[j].errored = 1 /\ files[j].fault = "decode"
       /\ tally[k].skipped = 1

AcceptedExtension(ext) ==
  \E x \in ImagePattern : ext \in {Ext(x), Ext(Upper(x))} \cup {<<".","J","p","g">>}

\* C4: for every accepted extension, every selector and either alpha flag the
\* resolved output format is one of jpeg, png, webp, avif, tiff, and a file that
\* decodes leaves format resolution without an error being counted for it.
C4_FormatSupported ==
  /\ Planned => /\ AcceptedExtension(Entry.ext)
                /\ cur.outputFormat \in {S_jpeg, S_png, S_webp, S_avif, S_tiff}
                /\ tally[idx].errored = 0
  /\ \A k \in 1..Len(written) :
       written[k].name.format \in {S_jpeg, S_png, S_webp, S_avif, S_tiff}

\* a selector outside the documented set on an upper-case svg input
C4_Witness ==
  /\ pc = "toFile"
  /\ cfg.OUTPUT_FORMAT = S_gif
  /\ Entry.ext = Ext(Upper(S_svg))
  /\ cur.outputFormat \in {S_jpeg, S_png}

Spelled(ext, x) == ext \in {Ext(x), Ext(Upper(x))}

\* C5: the resolved format follows the reference rule. A supported selector is
\* the result; any other selector except 'original' gives png iff the source has
\* alpha, else jpeg; 'original' gives F on an input whose extension spells the
\* supported format F (jpg counting as jpeg), and png iff alpha, else jpeg, on
\* svg and gif inputs.
C5_FormatRule ==
  Planned =>
    LET sel == cfg.OUTPUT_FORMAT
        ext == Entry.ext
        f == cur.outputFormat
        fallback == IF Entry.hasAlpha THEN S_png ELSE S_jpeg
    IN  /\ sel \in {S_jpeg, S_png, S_webp, S_avif, S_tiff} => f = sel
        /\ sel \notin {S_jpeg, S_png, S_webp, S_avif, S_tiff, S_original} => f = fallback
        /\ sel = S_original =>
             /\ \A F \in {S_jpeg, S_png, S_webp, S_avif, S_tiff} : Spelled(ext, F) => f = F
             /\ (Spelled(ext, S_jpg) \/ ext = <<".","J","p","g">>) => f = S_jpeg
             /\ (Spelled(ext, S_svg) \/ Spelled(ext, S_gif)) => f = fallback

\* 'original' on an upper-case svg input with alpha resolves to png
C5_Witness ==
  /\ pc = "toFile"
  /\ cfg.OUTPUT_FORMAT = S_original
  /\ Entry.ext = Ext(Upper(S_svg))
  /\ Entry.hasAlpha
  /\ cur.outputFormat = S_png

Has(p, name) == \E k \in 1..Len(p) : p[k].op = name
At(p, name) == CHOOSE k \in 1..Len(p) : p[k].op = name

C7_FlattenIffJpegAlpha ==
  Planned =>
    /\ Has(cur.pipeline, "flatten") <=> (cur.outputFormat = S_jpeg /\ Entry.hasAlpha)
    /\ cur.outputFormat \in {S_png, S_webp, S_avif, S_tiff} => ~Has(cur.pipeline, "flatten")
    /\ Has(cur.pipeline, "flatten") =>
         cur.pipeline[At(cur.pipeline, "flatten")].background = "#ffffff"

\* a source with alpha written as jpeg is flattened
C7_Witness ==
  /\ Encoded
  /\ cur.outputFormat = S_jpeg
  /\ Entry.hasAlpha
  /\ Has(cur.pipeline, "flatten")

OffsetNames == {"top", "bottom", "left", "right"}

\* the offsets each documented position is to set
ExpectedOffsets(pos) ==
  CASE pos = S_center           -> {}
    [] pos = S_top              -> {"top"}
    [] pos = S_bottom           -> {"bottom"}
    [] pos = S_left             -> {"left"}
    [] pos = S_right            -> {"right"}
    [] pos = S_top \o S_Left    -> {"top", "left"}
    [] pos = S_top \o S_Right   -> {"top", "right"}
    [] pos = S_bottom \o S_Left -> {"bottom", "left"}
    [] pos = S_bottom \o S_Right -> {"bottom", "right"}

ImageComposited ==
  /\ Encoded
  /\ Has(cur.pipeline, "composite")
  /\ cur.pipeline[At(cur.pipeline, "composite")].kind = "image"

\* C8: for each of the nine named positions and a margin > 0 the image watermark
\* sets exactly the offsets of the position's name, each to the margin, and never
\* both of top/bottom or both of left/right.
C8_MarginOffsets ==
  (/\ ImageComposited
   /\ cfg.WATERMARK.position \in { Some(q) : q \in NamedPositions }
   /\ cfg.WATERMARK.margin > 0) =>
    LET c == cur.pipeline[At(cur.pipeline, "composite")]
        set == { n \in OffsetNames : c[n] # None }
    IN  /\ set = ExpectedOffsets(Val(cfg.WATERMARK.position))
        /\ \A n \in set : c[n] = Some(cfg.WATERMARK.margin)
        /\ ~({"top", "bottom"} \subseteq set)
        /\ ~({"left", "right"} \subseteq set)

\* topRight with margin 20: top and right set, bottom and left unset
C8_Witness ==
  /\ ImageComposited
  /\ cfg.WATERMARK.position = Some(S_top \o S_Right)
  /\ cfg.WATERMARK.margin = 20
  /\ LET c == cur.pipeline[At(cur.pipeline, "composite")]
     IN  c.top = Some(20) /\ c.right = Some(20) /\ c.bottom = None /\ c.left = None

\* watermarking is enabled and there is nothing to apply
WatermarkNoOp ==
  /\ cfg.WATERMARK.enabled
  /\ \/ cfg.WATERMARK.type \notin {"image", "text"}
     \/ cfg.WATERMARK.type = "text" /\ cfg.WATERMARK.text \in {None, Some(<< >>)}
     \/ cfg.WATERMARK.type = "image" /\ ~disk.watermarkExists

\* C9: in the watermark no-op cases no composite step is added, the watermarked
\* counter stays 0, no error is counted that the file's own faults do not
\* explain, and a file without faults is resized, encoded, written and counted
\* as succeeded.
C9_WatermarkNoOp ==
  WatermarkNoOp =>
    /\ stats.watermarked = 0
    /\ ~Has(cur.pipeline, "composite")
    /\ pc # "watermarkBuffer"
    /\ \A k \in 1..Len(log) :
         log[k].msg \notin {"Applied image watermark", "Applied text watermark"}
    /\ \A i \in 1..Len(tally) : tally[i].errored = 1 => files[i].fault # "none"
    /\ Encoded =>
         /\ cfg.RESIZE.enabled => Has(cur.pipeline, "resize")
         /\ Has(cur.pipeline, "toFormat")
    /\ SummaryPrinted =>
         \A i \in 1..Len(files) :
           (~files[i].isDir /\ isImageFile(files[i].ext) /\ files[i].fault = "none") =>
             /\ tally[i].succeeded = 1
             /\ \E k \in 1..Len(written) : written[k].file = i

\* an image watermark whose file does not exist: the file still succeeds
C9_Witness ==
  /\ WatermarkNoOp
  /\ cfg.WATERMARK.type = "image"
  /\ SummaryPrinted
  /\ stats.successCount = 1
  /\ stats.errorCount = 0
  /\ Len(written) = 1

WrittenNames == { written[k].name : k \in 1..Len(written) }

\* C10 as stated, for runs in which no output fails to be read back: when the
\* summary is printed the number of output files written equals the succeeded
\* count (every succeeded input has its own file), and no file was written for
\* an input counted as errored.
C10_OneFilePerSuccess ==
  (SummaryPrinted /\ \A i \in 1..Len(files) : files[i].fault # "reread") =>
    /\ Cardinality(WrittenNames) = stats.successCount
    /\ \A k \in 1..Len(written) : tally[written[k].file].errored = 0

\* C10 amended: every input counted as succeeded was written, once, to
\* <stem>.<resolved format>; every write is of that form; the writes are at
\* least as many as the successes and the distinct output files at most as many
\* at the summary (inputs with the same stem and resolved format share one file)
\* unless an output could not be read back; an input counted as errored has a
\* written file only if it failed after the write.
C10_OutputPerSuccess ==
  /\ \A i \in 1..Len(tally) :
       tally[i].succeeded = 1 =>
         /\ Cardinality({ k \in 1..Len(written) : written[k].file = i }) = 1
         /\ \E k \in 1..Len(written) :
              /\ written[k].file = i
              /\ written[k].name.stem = files[i].stem
              /\ written[k].name.format \in {S_jpeg, S_png, S_webp, S_avif, S_tiff}
              /\ stats.formatCounts[written[k].name.format] >= 1
  /\ \A k \in 1..Len(written) :
       /\ written[k].name.stem = files[written[k].file].stem
       /\ tally[written[k].file].errored = 1 => files[written[k].file].fault = "reread"
  /\ stats.successCount <= Len(written)
  /\ Cardinality(WrittenNames) <= Len(written)
  /\ (SummaryPrinted /\ \A i \in 1..Len(files) : files[i].fault # "reread") =>
       Cardinality(WrittenNames) <= stats.successCount

\* a.jpg and a.png both succeed as a.jpeg: two successes, one output file
C10_Witness ==
  /\ SummaryPrinted
  /\ stats.successCount = 2
  /\ Len(written) = 2
  /\ Cardinality(WrittenNames) = 1

LoggedFor(i, msgs) == \E k \in 1..Len(log) : log[k].file = i /\ log[k].msg \in msgs

\* C11: an entry that is a directory, or a file whose extension is not one of
\* the eight image extensions in either letter case, bumps the skipped counter
\* once and nothing else: it is not opened, not written and not counted as
\* processed, succeeded or errored; an image file is never skipped. (Entries
\* whose stat succeeded: a directory is known to be one only then.)
C11_SkippedOnly ==
  /\ \A i \in 1..Len(tally) :
       (tally[i].started = 1 /\ files[i].fault # "stat") =>
         IF files[i].isDir \/ ~AcceptedExtension(files[i].ext)
         THEN /\ tally[i].skipped = 1
              /\ tally[i].succeeded = 0
              /\ tally[i].errored = 0
              /\ ~LoggedFor(i, {"Processing", "Original", "Done", "Error processing"})
              /\ \A k \in 1..Len(written) : written[k].file # i
              /\ ~(idx = i /\ pc \in {"metadata", "probe", "watermarkBuffer", "toFile", "reread"})
         ELSE tally[i].skipped = 0 /\ LoggedFor(i, {"Processing"})
  /\ stats.skippedCount = SumOver([i \in 1..Len(tally) |-> tally[i].skipped], Len(tally))
  /\ stats.totalProcessed = SumOver([i \in 1..Len(tally) |-> tally[i].succeeded], Len(tally))
  /\ stats.successCount = stats.totalProcessed

\* a directory and a text file are skipped beside an image that succeeds
C11_Witness ==
  /\ SummaryPrinted
  /\ Len(files) = 3
  /\ stats.skippedCount = 2
  /\ stats.successCount = 1
  /\ \E i, j \in 1..3 : files[i].isDir /\ ~files[j].isDir /\ files[j].ext = Ext(S_txt)

\* C13: the encode options follow from the resolved format alone: quality (the
\* configured one) exactly for jpeg, webp, avif, tiff; compression level 9 and
\* no quality for png; mozjpeg exactly for jpeg; lossless = false exactly for
\* webp; nothing else for avif and tiff.
C13_EncodeOptions ==
  Encoded =>
    LET step == cur.pipeline[Len(cur.pipeline)]
        f == cur.outputFormat
        o == step.options
    IN  /\ step.op = "toFormat" /\ step.format = f
        /\ o.quality # None <=> f \in {S_jpeg, S_webp, S_avif, S_tiff}
        /\ o.quality \in {None, Some(cfg.QUALITY)}
        /\ o.compressionLevel = (IF f = S_png THEN Some(9) ELSE None)
        /\ o.mozjpeg = (IF f = S_jpeg THEN Some(TRUE) ELSE None)
        /\ o.lossless = (IF f = S_webp THEN Some(FALSE) ELSE None)

\* a webp output: quality and lossless = false, nothing else
C13_Witness ==
  /\ Encoded
  /\ cur.outputFormat = S_webp
  /\ cur.pipeline[Len(cur.pipeline)].options =
       [quality |-> Some(80), mozjpeg |-> None, compressionLevel |-> None,
        lossless |-> Some(FALSE)]

ZeroStats ==
  [totalProcessed |-> 0, totalInputSize |-> 0, totalOutputSize |-> 0,
   successCount |-> 0, errorCount |-> 0, skippedCount |-> 0,
   formatCounts |-> << >>, watermarked |-> 0]

\* C14: on an empty input directory the run logs that no files were found, ends
\* without an error, and its statistics are all zero, as the value processImages
\* resolves to as well.
C14_EmptyDirectory ==
  (Ended /\ disk.listable /\ Len(disk.entries) = 0) =>
    /\ LoggedFor(0, {"No files found"})
    /\ ~LoggedFor(0, {"An error occurred"})
    /\ stats = ZeroStats
    /\ ret = "stats"

\* C15: with the selector 'original' a .gif input is written as <stem>.gif.
C15_GifOutput ==
  (Encoded /\ cfg.OUTPUT_FORMAT = S_original /\ Spelled(Entry.ext, S_gif)) =>
    /\ cur.outputFormat = S_gif
    /\ cur.outputFileName = Some([stem |-> Entry.stem, format |-> S_gif])

\* C20: the statistics, the watermarked counter included, change only with a
\* file's terminal outcome: between two files watermarked <= succeeded, and a
\* file that has failed has left the watermarked counter as it was.
C20_WatermarkedAfterOutcome ==
  pc \in {"stat", "done"} => stats.watermarked <= stats.successCount

\* the current file's pipeline composites a text watermark
TextComposited ==
  /\ Encoded
  /\ Has(cur.pipeline, "composite")
  /\ cur.pipeline[At(cur.pipeline, "composite")].kind = "text"

\* the <svg> document and the <text> content of the text watermark
Overlay == cur.pipeline[At(cur.pipeline, "composite")].input
Markup == Overlay.text

Entities ==
  { <<E_amp, "&">>, <<E_lt, "<">>, <<E_gt, ">">>, <<E_quot, "\"">>, <<E_apos, "'">> }

StartsAt(s, i, e) == i + Len(e) - 1 <= Len(s) /\ SubSeq(s, i, i + Len(e) - 1) = e

\* what an XML parser reads back from character data
RECURSIVE Unescape(_)
Unescape(s) ==
  IF s = << >> THEN << >>
  ELSE IF \E e \in Entities : StartsAt(s, 1, e[1])
  THEN LET e == CHOOSE e \in Entities : StartsAt(s, 1, e[1])
       IN  << e[2] >> \o Unescape(SubSeq(s, Len(e[1]) + 1, Len(s)))
  ELSE << Head(s) >> \o Unescape(Tail(s))

\* C12: the text embedded in the overlay markup contains no literal <, >, " or
\* apostrophe, every & in it starts one of the five entities, and reading the
\* entities back gives the configured text (no entity is escaped a second time).
C12_TextEscaped ==
  TextComposited =>
    /\ \A i \in 1..Len(Markup) :
         /\ Markup[i] \notin {"<", ">", "\"", "'"}
         /\ Markup[i] = "&" => \E e \in Entities : StartsAt(Markup, i, e[1])
    /\ Unescape(Markup) = Val(cfg.WATERMARK.text)

C12_Witness ==
  /\ TextComposited
  /\ Val(cfg.WATERMARK.text) = <<"<", "&", "'">>
  /\ Markup = E_lt \o E_amp \o E_apos

SourceSize == Size(Entry.width, Entry.height)
ResizeRequests == { k \in 1..Len(cur.pipeline) : cur.pipeline[k].op = "resize" }

\* C16: with resize enabled the pipeline has one resize step, requested with the
\* configured width, height and fit and with enlargement disabled, and the image
\* it renders exceeds the source on neither axis; with resize disabled there is
\* no resize step and the rendered image has the source's dimensions.
C16_NoEnlargement ==
  Planned =>
    LET out == rendered(cur.pipeline, SourceSize)
    IN  IF cfg.RESIZE.enabled
        THEN /\ Cardinality(ResizeRequests) = 1
             /\ \A k \in ResizeRequests :
                  /\ cur.pipeline[k].withoutEnlargement = TRUE
                  /\ cur.pipeline[k].width = cfg.RESIZE.width
                  /\ cur.pipeline[k].height = cfg.RESIZE.height
                  /\ cur.pipeline[k].fit = cfg.RESIZE.fit
             /\ out.width <= Entry.width
             /\ out.height <= Entry.height
             /\ cur.processedMetadata # None => Val(cur.processedMetadata) = out
        ELSE /\ ResizeRequests = {}
             /\ out = SourceSize
             /\ cur.processedMetadata # None => Val(cur.processedMetadata) = SourceSize

C16_Witness ==
  /\ Planned
  /\ cfg.RESIZE.enabled
  /\ cfg.RESIZE.fit = "outside"
  /\ cfg.RESIZE.width = Some(4000)
  /\ cfg.RESIZE.height = Some(50)
  /\ SourceSize = Size(301, 200)
  /\ cur.processedMetadata = Some(SourceSize)

Ops(p) == [k \in 1..Len(p) |-> p[k].op]
IsOptionalStep(s) == s.op \in {"resize", "sharpen", "withMetadata"}

\* the enabled steps among resize, sharpen and metadata policy, in that order
EnabledSteps ==
  (IF cfg.RESIZE.enabled THEN << "resize" >> ELSE << >>)
  \o (IF cfg.OPTIMIZATIONS.sharpen THEN << "sharpen" >> ELSE << >>)
  \o (IF ~cfg.OPTIMIZATIONS.removeMetadata THEN << "withMetadata" >> ELSE << >>)

\* the dimensions the image has after the resize step
AfterResize ==
  IF ResizeRequests = {} THEN SourceSize
  ELSE resized(cur.pipeline[CHOOSE k \in ResizeRequests : TRUE], SourceSize)

Composite == cur.pipeline[At(cur.pipeline, "composite")]

\* C17: the pipeline opens the source and reorients first; the enabled steps among
\* resize, sharpen and metadata policy follow in that relative order, each before
\* any composite and before the encoding step; the watermark geometry (the canvas
\* of the text layer, the width of the image watermark) is computed from the
\* dimensions after the resize step.
C17_StepOrder ==
  Planned =>
    LET p == cur.pipeline
    IN  /\ Len(p) >= 2 /\ p[1].op = "sharp" /\ p[2].op = "rotate"
        /\ \A k \in 3..Len(p) : p[k].op \notin {"sharp", "rotate"}
        /\ Ops(SelectSeq(p, IsOptionalStep)) = EnabledSteps
        /\ \A k, j \in 1..Len(p) :
             (IsOptionalStep(p[k]) /\ p[j].op \in {"composite", "toFormat"}) => k < j
        /\ \A k, j \in 1..Len(p) :
             (p[k].op = "composite" /\ p[j].op = "toFormat") => k < j
        /\ cur.processedMetadata # None => Val(cur.processedMetadata) = AfterResize
        /\ Has(p, "composite") =>
             /\ Composite.base = AfterResize
             /\ Composite.kind = "text" =>
                  /\ Composite.input.width = AfterResize.width
                  /\ Composite.input.height = AfterResize.height
             /\ Composite.kind = "image" =>
                  Composite.input.width =
                    MathRoundOfProduct(AfterResize.width, cfg.WATERMARK.size[1],
                                       cfg.WATERMARK.size[2])

C17_Witness ==
  /\ Encoded
  /\ EnabledSteps = << "resize", "sharpen", "withMetadata" >>
  /\ Has(cur.pipeline, "composite")
  /\ Has(cur.pipeline, "toFormat")
  /\ SourceSize = Size(1920, 1080)
  /\ Composite.base = Size(1200, 675)

\* WATERMARK.position is none of the nine names, in any letter case
UnrecognizedPosition ==
  LET p == toLowerCase(IF cfg.WATERMARK.position = None THEN << >>
                       ELSE Val(cfg.WATERMARK.position))
  IN  \A kv \in gravityMap : kv[1] # p

\* C18: for a position that is none of the nine names the overlay geometry is
\* that of bottomRight: the image watermark has gravity southeast, bottom and
\* right offsets equal to the margin and top and left unset; the text watermark
\* has x = width - margin, alignment end, y = height - margin, baseline alphabetic.
C18_UnrecognizedIsBottomRight ==
  (Encoded /\ Has(cur.pipeline, "composite") /\ UnrecognizedPosition) =>
    IF Composite.kind = "image"
    THEN /\ Composite.gravity = S_south \o S_east
         /\ Composite.bottom = Some(cfg.WATERMARK.margin)
         /\ Composite.right = Some(cfg.WATERMARK.margin)
         /\ Composite.top = None
         /\ Composite.left = None
    ELSE /\ Overlay.x2 = 2 * (Overlay.width - cfg.WATERMARK.margin)
         /\ Overlay.textAnchor = "end"
         /\ Overlay.y2 = 2 * (Overlay.height - cfg.WATERMARK.margin)
         /\ Overlay.alignmentBaseline = "alphabetic"

\* the configured position, lower-cased
PositionKey ==
  toLowerCase(IF cfg.WATERMARK.position = None THEN << >> ELSE Val(cfg.WATERMARK.position))

\* the horizontal and vertical class of each of the nine positions
HorizontalClass(p) ==
  IF p \in {S_top \o S_left, S_left, S_bottom \o S_left} THEN "start"
  ELSE IF p \in {S_top \o S_right, S_right, S_bottom \o S_right} THEN "end"
  ELSE "center"
VerticalClass(p) ==
  IF p \in {S_top \o S_left, S_top, S_top \o S_right} THEN "start"
  ELSE IF p \in {S_bottom \o S_left, S_bottom, S_bottom \o S_right} THEN "end"
  ELSE "center"

\* max(16, round(0.02 * W)), the size derived from the canvas width
DerivedFontSize(W) ==
  IF (2 * W + 50) \div 100 >= 16 THEN (2 * W + 50) \div 100 ELSE 16

\* the configured font size, or the derived size when unset
ResolvedFontSize(W) ==
  IF cfg.WATERMARK.fontSize = None THEN DerivedFontSize(W)
  ELSE Val(cfg.WATERMARK.fontSize)

\* the configured font size when it is set and not zero, else the derived size
EffectiveFontSize(W) ==
  IF cfg.WATERMARK.fontSize \in {None, Some(0)} THEN DerivedFontSize(W)
  ELSE Val(cfg.WATERMARK.fontSize)

\* the text layer of the current file is anchored by the class of the position
\* with font size f: x = m / W - m / W/2 with alignment start / end / middle,
\* y = m + f / H - m / H/2 with baseline hanging / alphabetic / middle, rotated
\* about that point, composited at the canvas origin. x and y are doubled.
AnchoredWithFontSize(f) ==
  LET W == Val(cur.processedMetadata).width
      H == Val(cur.processedMetadata).height
      m == cfg.WATERMARK.margin
      h == HorizontalClass(PositionKey)
      v == VerticalClass(PositionKey)
  IN  /\ Overlay.width = W /\ Overlay.height = H
      /\ Overlay.fontSize = f
      /\ h = "start"  => Overlay.x2 = 2 * m /\ Overlay.textAnchor = "start"
      /\ h = "end"    => Overlay.x2 = 2 * (W - m) /\ Overlay.textAnchor = "end"
      /\ h = "center" => Overlay.x2 = W /\ Overlay.textAnchor = "middle"
      /\ v = "start"  => Overlay.y2 = 2 * (m + f) /\ Overlay.alignmentBaseline = "hanging"
      /\ v = "end"    => Overlay.y2 = 2 * (H - m) /\ Overlay.alignmentBaseline = "alphabetic"
      /\ v = "center" => Overlay.y2 = H /\ Overlay.alignmentBaseline = "middle"
      /\ Overlay.rotate.x2 = Overlay.x2 /\ Overlay.rotate.y2 = Overlay.y2
      /\ Overlay.rotate.angle = cfg.WATERMARK.angle
      /\ Composite.gravity = S_north \o S_west
      /\ Composite.top = None /\ Composite.bottom = None
      /\ Composite.left = None /\ Composite.right = None

\* C19 as stated: for each of the nine positions, canvas W x H, margin m and
\* resolved font size f (the configured size, or max(16, round(0.02 * W)) when
\* unset), the text is anchored at x = m / W - m / W/2 with alignment start /
\* end / middle and y = m + f / H - m / H/2 with baseline hanging / alphabetic /
\* middle, by the horizontal and vertical class of the position; the rotation
\* is about the same point, and the layer is composited at the canvas origin.
\* A configured size of 0 refutes it: the code resolves it like an unset one.
C19_TextAnchorConfiguredSize ==
  (TextComposited /\ ~UnrecognizedPosition) =>
    AnchoredWithFontSize(ResolvedFontSize(Val(cur.processedMetadata).width))

\* C19 amended: the same anchor table, rotation and origin composite, with the
\* resolved font size f being the configured size when it is set and not zero,
\* and max(16, round(0.02 * W)) when it is unset or zero.
C19_TextAnchor ==
  (TextComposited /\ ~UnrecognizedPosition) =>
    AnchoredWithFontSize(EffectiveFontSize(Val(cur.processedMetadata).width))

\* a top-anchored text with margin 1 on a 301 x 200 canvas and a configured
\* size of 0: the font size is 16 and the anchor is (150.5, 17)
C19_Witness ==
  /\ TextComposited
  /\ cfg.WATERMARK.position = Some(S_top)
  /\ cfg.WATERMARK.fontSize = Some(0)
  /\ cfg.WATERMARK.margin = 1
  /\ Val(cur.processedMetadata) = Size(301, 200)
  /\ Overlay.x2 = 301 /\ Overlay.y2 = 34 /\ Overlay.fontSize = 16

\* the sum of all per-format counts
RECURSIVE SumCounts(_)
SumCounts(counts) ==
  IF DOMAIN counts = {} THEN 0
  ELSE LET f == CHOOSE f \in DOMAIN counts : TRUE
       IN  counts[f] + SumCounts([g \in DOMAIN counts \ {f} |-> counts[g]])

Succeeded == { i \in 1..Len(tally) : tally[i].succeeded = 1 }
Errored == { i \in 1..Len(tally) : tally[i].errored = 1 }

RECURSIVE SumSet(_, _)
SumSet(f, S) ==
  IF S = {} THEN 0
  ELSE LET i == CHOOSE i \in S : TRUE IN f[i] + SumSet(f, S \ {i})

\* C21: between two files and at the end of the run, totalProcessed, successCount
\* and the sum of the per-format counts all equal the number of files that
\* succeeded, the byte totals are the sums over the succeeded files, and the
\* failed files have added to the error count only.
C21_SuccessOnlyAccounting ==
  (pc \in {"stat", "done"} /\ files # << >>) =>
    /\ stats.totalProcessed = Cardinality(Succeeded)
    /\ stats.successCount = Cardinality(Succeeded)
    /\ SumCounts(stats.formatCounts) = Cardinality(Succeeded)
    /\ stats.totalInputSize = SumSet([i \in 1..Len(files) |-> files[i].size], Succeeded)
    /\ stats.totalOutputSize = SumSet([i \in 1..Len(files) |-> files[i].outSize], Succeeded)
    /\ stats.errorCount = Cardinality(Errored)
    /\ "watermarked" \in DOMAIN stats => stats.watermarked <= Cardinality(Succeeded)

\* file i has been started ('Processing') and has no terminal outcome yet
InFlight == { i \in 1..Len(tally) : LoggedFor(i, {"Processing"}) /\ Outcomes(i) = 0 }
Awaiting == pc \in {"metadata", "probe", "watermarkBuffer", "toFile", "reread"}

\* C22: at most one file is between its start and its terminal outcome, and it
\* is the file whose metadata read, probe, encode or write is awaited; when a
\* file is started every file before it in the listing has its outcome and no
\* file after it has been touched; the per-file log lines are in listing order.
C22_Sequential ==
  /\ Cardinality(InFlight) <= 1
  /\ Awaiting <=> InFlight # {}
  /\ InFlight # {} => InFlight = {idx}
  /\ \A i, j \in 1..Len(tally) :
       (i < j /\ tally[j].started = 1) => Outcomes(i) = 1
  /\ \A i \in 1..Len(tally) : tally[i].started <= 1 /\ Outcomes(i) <= tally[i].started
  /\ \A k, l \in 1..Len(log) :
       (k < l /\ log[k].file # 0 /\ log[l].file # 0) => log[k].file <= log[l].file
  /\ \A k \in 1..Len(written) :
       written[k].file <= idx /\ (written[k].file = idx => pc = "reread")

C22_Witness ==
  /\ pc = "toFile"
  /\ idx = 3
  /\ tally[1].succeeded = 1
  /\ tally[2].errored = 1
  /\ InFlight = {3}

\* C23: when listing the input directory fails, the run ends with the top-level
\* error message as its only output: no file is opened or written, no summary and
\* no completion message is printed, and processImages resolves to the statistics
\* with every counter zero.
C23_FatalSetupFailure ==
  (Ended /\ ~disk.listable) =>
    /\ log = << Line("An error occurred", 0) >>
    /\ files = << >> /\ tally = << >> /\ cur = NoFile
    /\ written = << >>
    /\ ~SummaryPrinted
    /\ ~LoggedFor(0, {"completed"})
    /\ ret = "stats"
    /\ stats = ZeroStats

C23_Witness ==
  /\ Ended
  /\ ~disk.listable
  /\ cfg.WATERMARK.enabled
  /\ LoggedFor(0, {"An error occurred"})

\* s holds no literal <, >, " or apostrophe and every & in it starts an entity
EscapedMarkup(s) ==
  \A i \in 1..Len(s) :
    /\ s[i] \notin {"<", ">", "\"", "'"}
    /\ s[i] = "&" => \E e \in Entities : StartsAt(s, i, e[1])

\* C24: each configured string embedded in the overlay markup (the text, the
\* font family, the font colour) is embedded escaped: the embedded string holds
\* no literal <, >, " or apostrophe and no bare &.
C24_AllStringsEscaped ==
  TextComposited =>
    /\ EscapedMarkup(Overlay.text)
    /\ EscapedMarkup(Overlay.fontFamily)
    /\ EscapedMarkup(Overlay.fill)

AtMostOne(o) == 0 <= o[1] /\ o[1] <= o[2]
\* o <= q, for fractions with positive denominators
NotAbove(o, q) == o[1] * q[2] <= q[1] * o[2]

\* C25: for an opacity in [0, 1] the watermark is masked by the tiled pixel
\* (255, 255, 255, b) with blend 'dest-in', where b is opacity * 255 rounded to
\* the nearest integer, lies in 0..255 and is not below the byte of any smaller
\* opacity; each pixel's alpha becomes its alpha times b over 255, which leaves it
\* unchanged at opacity 1, makes it 0 at opacity 0, never raises it and keeps a
\* transparent pixel transparent; the result is composited with blend 'over'.
C25_OpacityMask ==
  (ImageComposited /\ AtMostOne(cfg.WATERMARK.opacity)) =>
    LET o == cfg.WATERMARK.opacity
        wm == Composite.input
        b == wm.mask.pixel[4]
    IN  /\ wm.mask.blend = "dest-in" /\ wm.mask.tile
        /\ SubSeq(wm.mask.pixel, 1, 3) = << 255, 255, 255 >>
        /\ b \in 0..255
        /\ 2 * b * o[2] - o[2] <= 2 * 255 * o[1]
        /\ 2 * 255 * o[1] <= 2 * b * o[2] + o[2]
        /\ \A q \in Opacities : NotAbove(q, o) /\ AtMostOne(q) => opacityByte(q) <= b
        /\ \A a \in SampleAlphas :
             /\ 2 * 255 * wm.alpha[a] - 255 <= 2 * a * b
             /\ 2 * a * b < 2 * 255 * wm.alpha[a] + 255
             /\ wm.alpha[a] <= a
             /\ o[1] = o[2] => wm.alpha[a] = a
             /\ o[1] = 0 => wm.alpha[a] = 0
        /\ wm.alpha[0] = 0
        /\ Composite.blend = "over"

C25_Witness ==
  /\ ImageComposited
  /\ cfg.WATERMARK.opacity = <<51, 510>>
  /\ Composite.input.mask.pixel = << 255, 255, 255, 26 >>
  /\ Composite.input.alpha[255] = 26
  /\ Composite.input.alpha[128] = 13

====
